---- MODULE Spec2Model ----
(***************************************************************************)
(* Search-tree nodes of the N-puzzle solver (node.py).                     *)
(*                                                                         *)
(* A Python list is an object on a heap: `lists` maps a list reference to  *)
(* its current contents, and a node's _grid field is such a reference, so  *)
(* that copying a list and aliasing it are different things.  Python       *)
(* indices are 0-based; position i of a list is element i + 1 of the       *)
(* sequence that models it.                                                *)
(***************************************************************************)
EXTENDS Integers, Sequences, FiniteSets, TLC

VARIABLES
    lists,       \* heap of list objects: reference -> contents
    nodes,       \* the Node objects constructed so far, in order of construction
    call,        \* the last call made by the driver, with its arguments and outcome
    expansions   \* what every createChildrenNodes call so far was given and yielded

vars == <<lists, nodes, call, expansions>>

----------------------------------------------------------------------------
(* Bounds and the inputs a driver is drawn from *)

(* The most nodes a tree grows to *)
MaxNodes == 5

(* The most nodes of a tree whose nodes are compared with each other *)
MaxCompared == 4

(* Python's None as a parent reference; node references start at 1 *)
None == 0

SearchStrategies == {"a_star", "uniform", "greedy", "dijkstra"}

HeuristicNames == {"manhattan", "misplaced"}

GridSizes == {2, 3}

SolutionGrids == {<<1, 2, 3, 0>>, <<1, 2, 3, 4, 5, 6, 7, 8, 0>>}

(* A start grid with the side length the driver declares for it: three     *)
(* 3x3 puzzles, one 2x2 puzzle, and two grids that are no permutation      *)
(* (two empty cells; no empty cell), which the constructor does not check. *)
StartPuzzles ==
    { <<<<1, 2, 3, 4, 5, 0, 7, 8, 6>>, 3>>,
      <<<<0, 1, 2, 3, 4, 5, 6, 7, 8>>, 3>>,
      <<<<1, 2, 3, 4, 0, 5, 6, 7, 8>>, 3>>,
      <<<<3, 1, 0, 2>>, 2>>,
      <<<<0, 0, 1, 2>>, 2>>,
      <<<<1, 2, 3, 3>>, 2>> }

----------------------------------------------------------------------------
(* Helpers of the arithmetic *)

Abs(a) == IF a < 0 THEN -a ELSE a

RECURSIVE SumOver(_, _)
SumOver(f, n) == IF n = 0 THEN 0 ELSE f[n] + SumOver(f, n - 1)

(* list.index(v): the first 0-based position holding v, -1 for ValueError *)
index(grid, v) ==
    IF \E k \in 1..Len(grid) : grid[k] = v
    THEN (CHOOSE k \in 1..Len(grid) :
              grid[k] = v /\ \A j \in 1..(k - 1) : grid[j] # v) - 1
    ELSE -1

(* index % size, index // size *)
getCoordinates(i, size) == <<i % size, i \div size>>

----------------------------------------------------------------------------
(* Heuristic.evaluate: an external collaborator, a total pure function     *)
(* returning a non-negative integer.                                       *)

Misplaced(grid, solutionGrid) ==
    Cardinality({k \in 1..Len(grid) :
        grid[k] # 0 /\ (k > Len(solutionGrid) \/ grid[k] # solutionGrid[k])})

Manhattan(grid, solutionGrid, gridSize) ==
    LET dist == [k \in 1..Len(grid) |->
                    LET j == index(solutionGrid, grid[k])
                        a == getCoordinates(k - 1, gridSize)
                        b == getCoordinates(j, gridSize)
                    IN  IF grid[k] = 0 \/ j < 0 THEN 0
                        ELSE Abs(a[1] - b[1]) + Abs(a[2] - b[2])]
    IN  SumOver(dist, Len(grid))

evaluate(grid, solutionGrid, gridSize, heuristic) ==
    IF heuristic = "manhattan"
    THEN Manhattan(grid, solutionGrid, gridSize)
    ELSE Misplaced(grid, solutionGrid)

----------------------------------------------------------------------------
(* Node.__init__ *)

getLevel(ns, n) == ns[n]._level

getCost(ns, n) == ns[n]._cost

getGrid(ls, ns, n) == ls[ns[n]._grid]

getGridSize(ns, n) == ns[n]._gridSize

getParentNode(ns, n) == ns[n]._parentNode

LevelOfParent(ns, parentNode) ==
    IF parentNode = None THEN 0 ELSE getLevel(ns, parentNode)

LevelOf(ns, parentNode) ==
    IF parentNode = None THEN 0 ELSE getLevel(ns, parentNode) + 1

CostTextbook(searchType, g_cost, h_cost) ==
    CASE searchType = "a_star"  -> [raised |-> FALSE, cost |-> g_cost + h_cost]
      [] searchType = "uniform" -> [raised |-> FALSE, cost |-> g_cost]
      [] searchType = "greedy"  -> [raised |-> FALSE, cost |-> h_cost]
      [] OTHER                  -> [raised |-> TRUE, cost |-> 0]

CostDefaulting(searchType, g_cost, h_cost) ==
    CASE searchType = "a_star"  -> [raised |-> FALSE, cost |-> g_cost + h_cost * 2]
      [] searchType = "uniform" -> [raised |-> FALSE, cost |-> g_cost]
      [] searchType = "greedy"  -> [raised |-> FALSE, cost |-> h_cost]
      [] OTHER                  -> [raised |-> FALSE, cost |-> g_cost + h_cost * 2]

CostUniformWeighted(searchType, g_cost, h_cost) ==
    CASE searchType = "a_star"  -> [raised |-> FALSE, cost |-> g_cost + h_cost * 2]
      [] searchType = "uniform" -> [raised |-> FALSE, cost |-> g_cost + h_cost]
      [] searchType = "greedy"  -> [raised |-> FALSE, cost |-> h_cost]
      [] OTHER                  -> [raised |-> TRUE, cost |-> 0]

(* the if/elif chain on _searchType; raised stands for the ValueError *)
CostOf(searchType, g_cost, h_cost) ==
    CASE searchType = "a_star"  -> [raised |-> FALSE, cost |-> g_cost + h_cost * 2]
      [] searchType = "uniform" -> [raised |-> FALSE, cost |-> g_cost]
      [] searchType = "greedy"  -> [raised |-> FALSE, cost |-> h_cost]
      [] OTHER                  -> [raised |-> TRUE, cost |-> 0]

(* The constructor.  grid is a list reference; the node keeps the          *)
(* reference, not a copy.  The result is the new node, or raised = TRUE    *)
(* when the constructor raised ValueError and no node exists.              *)
__init__(ls, ns, parentNode, grid, solutionGrid, gridSize, heuristic, searchStrategy) ==
    LET level == LevelOf(ns, parentNode)
        g == level
        h == evaluate(ls[grid], solutionGrid, gridSize, heuristic)
        c == CostOf(searchStrategy, g, h)
    IN  [raised |-> c.raised,
         node   |-> [_parentNode |-> parentNode,
                     _grid       |-> grid,
                     _gridSize   |-> gridSize,
                     _heuristic  |-> heuristic,
                     _searchType |-> searchStrategy,
                     _level      |-> level,
                     _g_cost     |-> g,
                     _h_cost     |-> h,
                     _cost       |-> c.cost]]

(* Node.__lt__ *)
LtOrEqual(ns, self, other) == ns[self]._cost <= ns[other]._cost

__lt__(ns, self, other) == ns[self]._cost < ns[other]._cost

----------------------------------------------------------------------------
(* Node.createChildrenNodes *)

alias(ls, ref) == [lists |-> ls, ref |-> ref]

(* list.copy(): a new list object with the same contents *)
copy(ls, ref) == [lists |-> Append(ls, ls[ref]), ref |-> Len(ls) + 1]

(* l[a] for a Python index a: a negative index counts from the end *)
Pos(l, a) == IF a < 0 THEN a + Len(l) + 1 ELSE a + 1

InRange(l, a) == -Len(l) <= a /\ a < Len(l)

SwapOneSided(l, a, b) == [l EXCEPT ![Pos(l, a)] = l[Pos(l, b)]]

(* l[a], l[b] = l[b], l[a] *)
Swap(l, a, b) == [l EXCEPT ![Pos(l, a)] = l[Pos(l, b)], ![Pos(l, b)] = l[Pos(l, a)]]

MoveDefaultStrategy(st, self, solutionGrid, gridSize, guard, zero, target) ==
    IF st.raised # "none" \/ ~guard THEN st
    ELSE
      LET cp == copy(st.lists, st.nodes[self]._grid)
          newGrid == cp.lists[cp.ref]
          tried == Append(st.swaps, <<zero, target>>)
      IN  IF ~InRange(newGrid, zero) \/ ~InRange(newGrid, target)
          THEN [st EXCEPT !.swaps = tried, !.raised = "IndexError"]
          ELSE
            LET ls2 == [cp.lists EXCEPT ![cp.ref] = Swap(newGrid, zero, target)]
                r == __init__(ls2, st.nodes, self, cp.ref, solutionGrid, gridSize,
                              st.nodes[self]._heuristic, "a_star")
            IN  IF r.raised
                THEN [st EXCEPT !.lists = ls2, !.swaps = tried, !.raised = "ValueError"]
                ELSE [lists  |-> ls2,
                      nodes  |-> Append(st.nodes, r.node),
                      out    |-> Append(st.out, Len(st.nodes) + 1),
                      swaps  |-> tried,
                      raised |-> "none"]

(* One of the four "if <guard>: copy, swap, yield Node(...)" blocks, run   *)
(* from the generator state st.  swaps logs the index pairs the block      *)
(* subscripts newGrid with.  Reading newGrid[target] outside the list      *)
(* raises IndexError before anything is assigned, and ends the generator:  *)
(* the children yielded before it stay yielded.                            *)
Move(st, self, solutionGrid, gridSize, guard, zero, target) ==
    IF st.raised # "none" \/ ~guard THEN st
    ELSE
      LET cp == copy(st.lists, st.nodes[self]._grid)
          newGrid == cp.lists[cp.ref]
          tried == Append(st.swaps, <<zero, target>>)
      IN  IF ~InRange(newGrid, zero) \/ ~InRange(newGrid, target)
          THEN [st EXCEPT !.swaps = tried, !.raised = "IndexError"]
          ELSE
            LET ls2 == [cp.lists EXCEPT ![cp.ref] = Swap(newGrid, zero, target)]
                r == __init__(ls2, st.nodes, self, cp.ref, solutionGrid, gridSize,
                              st.nodes[self]._heuristic, st.nodes[self]._searchType)
            IN  IF r.raised
                THEN [st EXCEPT !.lists = ls2, !.swaps = tried, !.raised = "ValueError"]
                ELSE [lists  |-> ls2,
                      nodes  |-> Append(st.nodes, r.node),
                      out    |-> Append(st.out, Len(st.nodes) + 1),
                      swaps  |-> tried,
                      raised |-> "none"]

(* The guards of the four blocks *)
canMoveRight(zeroX, gridSize) == zeroX < gridSize - 1

canMoveLeftOrStay(zeroX) == zeroX >= 0

canMoveLeft(zeroX) == zeroX > 0

canMoveDownOrStay(zeroY, gridSize) == zeroY <= gridSize - 1

canMoveDown(zeroY, gridSize) == zeroY < gridSize - 1

canMoveUp(zeroY) == zeroY > 0

(* The generator run to its end: the heap and the nodes afterwards, the    *)
(* children in the order they were yielded, and the exception that ended   *)
(* it, if any (list.index raises ValueError when the grid holds no 0).     *)
createChildrenNodes(ls, ns, self, solutionGrid, gridSize) ==
    LET i == index(ls[ns[self]._grid], 0)
        s0 == [lists |-> ls, nodes |-> ns, out |-> <<>>, swaps |-> <<>>,
               raised |-> "none"]
    IN  IF i < 0 THEN [s0 EXCEPT !.raised = "ValueError"]
        ELSE
          LET zeroX == i % gridSize
              zeroY == i \div gridSize
              zero == zeroY * gridSize + zeroX
              s1 == Move(s0, self, solutionGrid, gridSize,
                         canMoveRight(zeroX, gridSize), zero, zero + 1)
              s2 == Move(s1, self, solutionGrid, gridSize,
                         canMoveLeft(zeroX), zero, zero - 1)
              s3 == Move(s2, self, solutionGrid, gridSize,
                         canMoveDown(zeroY, gridSize), zero, zero + gridSize)
              s4 == Move(s3, self, solutionGrid, gridSize,
                         canMoveUp(zeroY), zero, zero - gridSize)
          IN  s4

----------------------------------------------------------------------------
(* The driver's calls *)

NoCall ==
    [op |-> "none", self |-> None, other |-> None, grid |-> <<>>,
     solutionGrid |-> <<>>, gridSize |-> 0, heuristic |-> "", searchStrategy |-> "",
     out |-> <<>>, swaps |-> <<>>, raised |-> "none", result |-> FALSE]

(* What a yielded child looks like through its accessors *)
Seen(ls, ns, n) == <<getGrid(ls, ns, n), getLevel(ns, n), getCost(ns, n)>>

Init ==
    /\ lists = <<>>
    /\ nodes = <<>>
    /\ call = NoCall
    /\ expansions = {}

(* Node(None, grid, solutionGrid, gridSize, heuristic, searchStrategy):    *)
(* the driver builds the root of a search from the start grid, once.  The  *)
(* heap holds the lists that nodes refer to: the list given to a           *)
(* constructor that raised is referred to by no node.                      *)
Construct(grid, solutionGrid, gridSize, heuristic, searchStrategy) ==
    /\ nodes = <<>>
    /\ LET ls == Append(lists, grid)
           r == __init__(ls, nodes, None, Len(ls), solutionGrid, gridSize,
                         heuristic, searchStrategy)
       IN  /\ lists' = IF r.raised THEN lists ELSE ls
           /\ nodes' = IF r.raised THEN nodes ELSE Append(nodes, r.node)
           /\ call' = [NoCall EXCEPT
                         !.op = "Node", !.grid = grid, !.solutionGrid = solutionGrid,
                         !.gridSize = gridSize, !.heuristic = heuristic,
                         !.searchStrategy = searchStrategy,
                         !.out = IF r.raised THEN <<>> ELSE <<Len(nodes) + 1>>,
                         !.raised = IF r.raised THEN "ValueError" ELSE "none"]
    /\ UNCHANGED expansions

(* for child in node.createChildrenNodes(solutionGrid, gridSize): ...      *)
(* while the tree holds at most max nodes                                  *)
ExpandUpTo(max, self, solutionGrid, gridSize) ==
    LET r == createChildrenNodes(lists, nodes, self, solutionGrid, gridSize)
    IN  /\ Len(r.nodes) <= max
        /\ lists' = r.lists
        /\ nodes' = r.nodes
        /\ call' = [NoCall EXCEPT
                      !.op = "createChildrenNodes", !.self = self,
                      !.solutionGrid = solutionGrid, !.gridSize = gridSize,
                      !.out = r.out, !.swaps = r.swaps, !.raised = r.raised]
        /\ expansions' = expansions \cup
              {[self |-> self, solutionGrid |-> solutionGrid, gridSize |-> gridSize,
                yielded |-> [k \in 1..Len(r.out) |-> Seen(r.lists, r.nodes, r.out[k])],
                raised |-> r.raised]}

Expand(self, solutionGrid, gridSize) ==
    ExpandUpTo(MaxNodes, self, solutionGrid, gridSize)

(* a < b *)
Compare(a, b) ==
    /\ call' = [NoCall EXCEPT !.op = "lt", !.self = a, !.other = b,
                              !.result = __lt__(nodes, a, b)]
    /\ UNCHANGED <<lists, nodes, expansions>>

Root ==
    \E puzzle \in StartPuzzles, solutionGrid \in SolutionGrids,
       heuristic \in HeuristicNames, searchStrategy \in SearchStrategies :
       Construct(puzzle[1], solutionGrid, puzzle[2], heuristic, searchStrategy)

(* A driver that builds a tree *)
Next ==
    \/ Root
    \/ \E self \in 1..Len(nodes), solutionGrid \in SolutionGrids, gridSize \in GridSizes :
          Expand(self, solutionGrid, gridSize)

Spec == Init /\ [][Next]_vars

(* A driver that builds a small tree and orders its nodes, as a priority   *)
(* queue does                                                              *)
NextLt ==
    \/ Root
    \/ \E self \in 1..Len(nodes), solutionGrid \in SolutionGrids, gridSize \in GridSizes :
          ExpandUpTo(MaxCompared, self, solutionGrid, gridSize)
    \/ \E a \in 1..Len(nodes), b \in 1..Len(nodes) : Compare(a, b)

SpecLt == Init /\ [][NextLt]_vars

----------------------------------------------------------------------------
(* Vocabulary of the properties *)

Recognised == {"a_star", "uniform", "greedy"}

Ids == 1..Len(nodes)

Expanded == call.op = "createChildrenNodes"

Constructed == call.op = "Node"

Range(f) == {f[k] : k \in DOMAIN f}

(* The node the last createChildrenNodes call was made on, and its grid *)
Parent == call.self

ParentGrid == getGrid(lists, nodes, Parent)

Child(k) == call.out[k]

ChildGrid(k) == getGrid(lists, nodes, call.out[k])

(* A grid of side size: size * size cells holding 0 .. size * size - 1 once each *)
IsPuzzle(grid, size) ==
    /\ Len(grid) = size * size
    /\ Range(grid) = 0..(size * size - 1)

(* The call was given the side length of the grid it expands *)
SizeFits == Len(ParentGrid) = call.gridSize * call.gridSize

(* grid with the cells at 0-based positions i and t exchanged *)
Exchanged(grid, i, t) ==
    [k \in 1..Len(grid) |->
        IF k = i + 1 THEN grid[t + 1] ELSE IF k = t + 1 THEN grid[i + 1] ELSE grid[k]]

(* The cells the four directions lead to from cell i, in the order Right,  *)
(* Left, Down, Up, those off the board left out                            *)
RECURSIVE Keep(_)
Keep(ds) ==
    IF ds = <<>> THEN <<>>
    ELSE IF ds[1][1] THEN <<ds[1][2]>> \o Keep(Tail(ds)) ELSE Keep(Tail(ds))

Legal(i, size) ==
    LET x == i % size
        y == i \div size
    IN  Keep(<< <<x < size - 1, i + 1>>, <<x > 0, i - 1>>,
                <<y < size - 1, i + size>>, <<y > 0, i - size>> >>)

----------------------------------------------------------------------------
(* C1: a node's totalCost is level + 2 * heuristicCost under a_star, level *)
(* under uniform and heuristicCost under greedy, where heuristicCost is    *)
(* what the heuristic returned for the node's grid; a_star with level 3    *)
(* and heuristicCost 4 costs 11.                                           *)
C1_CostFormula ==
    /\ \A n \in Ids :
          LET nd == nodes[n]
          IN  /\ nd._searchType = "a_star"
                    => getCost(nodes, n) = getLevel(nodes, n) + 2 * nd._h_cost
              /\ nd._searchType = "uniform" => getCost(nodes, n) = getLevel(nodes, n)
              /\ nd._searchType = "greedy" => getCost(nodes, n) = nd._h_cost
    /\ \A k \in 1..Len(call.out) :
          LET n == call.out[k]
          IN  nodes[n]._h_cost =
                 evaluate(getGrid(lists, nodes, n), call.solutionGrid, call.gridSize,
                          nodes[n]._heuristic)
    /\ CostOf("a_star", 3, 4) = [raised |-> FALSE, cost |-> 11]

C1_Witness ==
    \E n \in Ids :
        /\ nodes[n]._searchType = "a_star"
        /\ getLevel(nodes, n) = 2
        /\ nodes[n]._h_cost = 4
        /\ getCost(nodes, n) = 10

(* C2: a constructor call with an unrecognised strategy raises at once and *)
(* leaves no node behind, whatever the grid, the size and the heuristic;   *)
(* so no node ever carries an unrecognised strategy.                       *)
C2_InvalidStrategy ==
    /\ (Constructed /\ call.searchStrategy \notin Recognised)
          => /\ call.raised = "ValueError"
             /\ call.out = <<>>
             /\ nodes = <<>>
             /\ lists = <<>>
    /\ \A n \in Ids : nodes[n]._searchType \in Recognised

C2_Witness ==
    /\ Constructed
    /\ call.searchStrategy = "dijkstra"
    /\ call.raised = "ValueError"
    /\ nodes = <<>>

(* C3: on a grid of side gridSize whose empty cell is at index i, the call *)
(* yields one child per direction that stays on the board (Right iff       *)
(* x < gridSize - 1, Left iff x > 0, Down iff y < gridSize - 1, Up iff     *)
(* y > 0), in the order Right, Left, Down, Up, and nothing else: 2         *)
(* children (Right, Down) from corner 0 of a 3x3 grid, 4 from its centre.  *)
C3_Directions ==
    (Expanded /\ SizeFits /\ index(ParentGrid, 0) >= 0) =>
        LET i == index(ParentGrid, 0)
            targets == Legal(i, call.gridSize)
        IN  /\ call.raised = "none"
            /\ Len(call.out) = Len(targets)
            /\ \A k \in 1..Len(call.out) :
                  ChildGrid(k) = Exchanged(ParentGrid, i, targets[k])
            /\ (call.gridSize = 3 /\ i = 0) => targets = <<1, 3>>
            /\ (call.gridSize = 3 /\ i = 4) => targets = <<5, 3, 7, 1>>

C3_Witness ==
    /\ Expanded /\ SizeFits
    /\ call.gridSize = 3
    /\ index(ParentGrid, 0) = 4
    /\ Len(call.out) = 4
    /\ IsPuzzle(ParentGrid, 3)

(* C4: a child's grid differs from its parent's in exactly two cells: the  *)
(* parent's empty cell i, which now holds the tile the parent had at the   *)
(* target cell, and the target cell (i + 1, i - 1, i + gridSize or         *)
(* i - gridSize), which now holds 0; so no child's grid equals its         *)
(* parent's.  The parent's grid has one empty cell.                        *)
C4_TwoCells ==
    (Expanded /\ Cardinality({k \in 1..Len(ParentGrid) : ParentGrid[k] = 0}) = 1) =>
        \A k \in 1..Len(call.out) :
            LET g == ParentGrid
                c == ChildGrid(k)
                i == index(g, 0)
                differ == {p \in 0..(Len(g) - 1) : c[p + 1] # g[p + 1]}
            IN  /\ Len(c) = Len(g)
                /\ c # g
                /\ \E t \in {i + 1, i - 1, i + call.gridSize, i - call.gridSize} :
                      /\ differ = {i, t}
                      /\ c[i + 1] = g[t + 1]
                      /\ c[t + 1] = 0

C4_Witness ==
    /\ Expanded
    /\ IsPuzzle(ParentGrid, call.gridSize)
    /\ Len(call.out) = 3
    /\ \A k \in 1..3 : ChildGrid(k) # ParentGrid

(* C5: a child has the expanded node as its parent and the node's          *)
(* heuristic name and search strategy; it is evaluated against the goal    *)
(* grid of the search and has the node's gridSize, the call being given    *)
(* the node's gridSize; so every descendant has the root's strategy, and   *)
(* the root's gridSize when every call was given it.                       *)
C5_Inherited ==
    /\ Expanded =>
          \A k \in 1..Len(call.out) :
              LET c == nodes[Child(k)]
              IN  /\ getParentNode(nodes, Child(k)) = Parent
                  /\ c._heuristic = nodes[Parent]._heuristic
                  /\ c._searchType = nodes[Parent]._searchType
                  /\ c._h_cost = evaluate(ChildGrid(k), call.solutionGrid,
                                          call.gridSize, nodes[Parent]._heuristic)
                  /\ call.gridSize = getGridSize(nodes, Parent)
                        => getGridSize(nodes, Child(k)) = getGridSize(nodes, Parent)
    /\ \A n \in Ids :
          /\ nodes[n]._searchType = nodes[1]._searchType
          /\ nodes[n]._heuristic = nodes[1]._heuristic
    /\ (\A e \in expansions : e.gridSize = getGridSize(nodes, 1))
          => \A n \in Ids : getGridSize(nodes, n) = getGridSize(nodes, 1)

C5_Witness ==
    /\ Expanded
    /\ call.gridSize = getGridSize(nodes, Parent)
    /\ getParentNode(nodes, Parent) # None
    /\ Len(call.out) >= 2
    /\ nodes[Parent]._searchType = "greedy"
    /\ nodes[Parent]._heuristic = "misplaced"
    /\ \A e \in expansions : e.gridSize = getGridSize(nodes, 1)

(* C6: a node built without a parent has level 0, a child's level is its   *)
(* parent's plus one, and so a node's level is the number of parent links  *)
(* from it up to the root.                                                 *)
RECURSIVE Links(_)
Links(n) ==
    IF getParentNode(nodes, n) = None THEN 0 ELSE 1 + Links(getParentNode(nodes, n))

C6_Levels ==
    /\ \A n \in Ids :
          /\ getParentNode(nodes, n) = None => getLevel(nodes, n) = 0
          /\ getLevel(nodes, n) = Links(n)
    /\ Expanded =>
          \A k \in 1..Len(call.out) :
              getLevel(nodes, Child(k)) = getLevel(nodes, Parent) + 1

C6_Witness ==
    /\ Expanded
    /\ getLevel(nodes, Parent) = 1
    /\ Len(call.out) >= 1
    /\ getLevel(nodes, Child(1)) = 2
    /\ getLevel(nodes, 1) = 0

(* C7: a < b is exactly a.totalCost < b.totalCost, whatever the grids: no  *)
(* node is below itself, the relation is transitive, and two nodes of      *)
(* equal cost are ordered in neither direction.                            *)
C7_Ordering ==
    /\ call.op = "lt" =>
          call.result = (getCost(nodes, call.self) < getCost(nodes, call.other))
    /\ \A a \in Ids : ~__lt__(nodes, a, a)
    /\ \A a \in Ids, b \in Ids :
          /\ __lt__(nodes, a, b) <=> getCost(nodes, a) < getCost(nodes, b)
          /\ getCost(nodes, a) = getCost(nodes, b)
                => ~__lt__(nodes, a, b) /\ ~__lt__(nodes, b, a)
    /\ \A a \in Ids, b \in Ids, c \in Ids :
          (__lt__(nodes, a, b) /\ __lt__(nodes, b, c)) => __lt__(nodes, a, c)

C7_Witness ==
    /\ call.op = "lt"
    /\ call.result
    /\ \E b \in Ids, c \in Ids :
          /\ __lt__(nodes, call.other, b)
          /\ getCost(nodes, c) = getCost(nodes, b)
          /\ c # b
          /\ getGrid(lists, nodes, c) # getGrid(lists, nodes, b)

(* C8: under uniform, expanding the root [1,2,3,4,5,0,7,8,6] of a 3x3      *)
(* search for [1,2,3,4,5,6,7,8,0] yields a child whose grid is the goal    *)
(* and whose totalCost is 1; and every child of a root costs 1 under       *)
(* uniform, whatever the heuristic returns.                                *)
C8_OneMoveAway ==
    /\ ( /\ Expanded
         /\ getParentNode(nodes, Parent) = None
         /\ ParentGrid = <<1, 2, 3, 4, 5, 0, 7, 8, 6>>
         /\ call.solutionGrid = <<1, 2, 3, 4, 5, 6, 7, 8, 0>>
         /\ call.gridSize = 3
         /\ nodes[Parent]._searchType = "uniform" )
          => \E k \in 1..Len(call.out) :
                /\ ChildGrid(k) = call.solutionGrid
                /\ getCost(nodes, Child(k)) = 1
    /\ \A n \in Ids :
          ( /\ getParentNode(nodes, n) # None
            /\ getParentNode(nodes, getParentNode(nodes, n)) = None
            /\ nodes[n]._searchType = "uniform" )
             => getCost(nodes, n) = 1

C8_Witness ==
    /\ Expanded
    /\ getParentNode(nodes, Parent) = None
    /\ ParentGrid = <<1, 2, 3, 4, 5, 0, 7, 8, 6>>
    /\ call.solutionGrid = <<1, 2, 3, 4, 5, 6, 7, 8, 0>>
    /\ call.gridSize = 3
    /\ nodes[Parent]._searchType = "uniform"
    /\ nodes[Parent]._heuristic = "manhattan"
    /\ \E k \in 1..Len(call.out) :
          /\ ChildGrid(k) = <<1, 2, 3, 4, 5, 6, 7, 8, 0>>
          /\ nodes[Child(k)]._h_cost = 0
    /\ \E k \in 1..Len(call.out) : nodes[Child(k)]._h_cost > 0

(* C9: when the root's grid is a permutation of 0 .. gridSize^2 - 1 and    *)
(* the calls are given that gridSize, every node's grid is such a          *)
(* permutation too, no call raises, and every index a call subscripts a    *)
(* grid with lies inside the grid.                                         *)
C9_Permutation ==
    ( /\ Len(nodes) >= 1
      /\ IsPuzzle(getGrid(lists, nodes, 1), getGridSize(nodes, 1))
      /\ \A e \in expansions : e.gridSize = getGridSize(nodes, 1) )
       => /\ \A n \in Ids : IsPuzzle(getGrid(lists, nodes, n), getGridSize(nodes, 1))
          /\ \A e \in expansions : e.raised = "none"
          /\ Expanded =>
                \A k \in 1..Len(call.swaps) :
                    /\ 0 <= call.swaps[k][1] /\ call.swaps[k][1] < Len(ParentGrid)
                    /\ 0 <= call.swaps[k][2] /\ call.swaps[k][2] < Len(ParentGrid)

C9_Witness ==
    /\ Expanded
    /\ getLevel(nodes, Parent) = 1
    /\ IsPuzzle(getGrid(lists, nodes, 1), getGridSize(nodes, 1))
    /\ \A e \in expansions : e.gridSize = getGridSize(nodes, 1)
    /\ Len(call.swaps) = 2
    /\ index(ParentGrid, 0) = Len(ParentGrid) - 1

(* C10: a call changes no node that exists: the grid, gridSize, parent,    *)
(* level and totalCost of each stay what they were; no two nodes share a   *)
(* grid list; and two calls on one node with the same arguments yield      *)
(* children with the same grids, levels and costs in the same order.       *)
Untouched ==
    /\ Len(nodes') >= Len(nodes)
    /\ \A n \in 1..Len(nodes) :
          /\ nodes'[n] = nodes[n]
          /\ getGrid(lists', nodes', n) = getGrid(lists, nodes, n)

OwnGrids == \A m \in Ids, n \in Ids : m # n => nodes[m]._grid # nodes[n]._grid

Repeatable ==
    \A e \in expansions, f \in expansions :
        (e.self = f.self /\ e.solutionGrid = f.solutionGrid /\ e.gridSize = f.gridSize)
           => e = f

C10_NoMutation == [][Untouched]_vars /\ [](OwnGrids /\ Repeatable)

C10_Witness ==
    /\ Expanded
    /\ Len(call.out) >= 2
    /\ \E m \in Ids \ Range(call.out) :
          /\ getParentNode(nodes, m) = Parent
          /\ getGridSize(nodes, m) = call.gridSize
          /\ nodes[m]._h_cost = nodes[Child(1)]._h_cost
          /\ Seen(lists, nodes, m) = Seen(lists, nodes, Child(1))
    /\ [self |-> Parent, solutionGrid |-> call.solutionGrid, gridSize |-> call.gridSize,
        yielded |-> [k \in 1..Len(call.out) |-> Seen(lists, nodes, Child(k))],
        raised |-> call.raised] \in expansions

====
